---- MODULE Spec2Model ----
(***************************************************************************)
(* Model of examples/advanced-pytorch/utils.py: the training loop (train), *)
(* the evaluation loop (test), the model adapter (load_efficientnet,       *)
(* replace_classifying_layer) and the parameter extractor                  *)
(* (get_model_params).                                                     *)
(*                                                                         *)
(* One Python call is a sequence of steps; pc is the position of the call  *)
(* in progress.  Values the tensor library computes (the per-batch loss,   *)
(* the number of correct predictions of a batch) are drawn from bounded    *)
(* sets; a failure of an external call is the action Raise.                *)
(***************************************************************************)
EXTENDS Integers, Sequences, FiniteSets, TLC

(* ------------------------------ bounds -------------------------------- *)
MaxDataset == 3
MaxEpochs == 2
MaxSteps == 2
MaxClasses == 2

(* Optional values: None is the empty tuple, Some(x) the one-tuple. *)
None == <<>>
Some(x) == <<x>>

Devices == {"cpu", "cuda"}
BatchSizes == {1, 2}
\* values of criterion(outputs, labels).item(): a cross-entropy, never negative
LossValues == {0, 1}

RECURSIVE SumSeq(_)
SumSeq(s) == IF s = <<>> THEN 0 ELSE Head(s) + SumSeq(Tail(s))

(* The batches a DataLoader over n samples yields: n \div b full batches,  *)
(* then the remainder unless drop_last.                                    *)
Batches(n, b, drop_last) ==
    LET full == n \div b
        rem  == n % b
        cnt  == full + (IF rem > 0 /\ ~drop_last THEN 1 ELSE 0)
    IN  [i \in 1..cnt |-> IF i <= full THEN b ELSE rem]

(* A loader: the sizes of the batches it yields, and len(loader.dataset). *)
Loaders(id) ==
    { [id |-> id, batches |-> Batches(n, b, d), dataset |-> n] :
        n \in 0..MaxDataset, b \in BatchSizes, d \in BOOLEAN }

StepsArgs == {None} \cup { Some(k) : k \in (-1)..MaxSteps }

NoLoader == [id |-> "none", batches |-> <<>>, dataset |-> 0]
NoAccuracy == [num |-> 0, den |-> 1]
NoRet == [kind |-> "none"]

(* ------------------------- the classifier model ---------------------- *)
\* the entrypoints the hub knows (two of them), and a name it does not know
KnownEntrypoints == {"nvidia_efficientnet_b0", "nvidia_efficientnet_b4"}
EntrypointArgs == KnownEntrypoints \cup {"no_such_entrypoint"}
DefaultEntrypoint == "nvidia_efficientnet_b0"
DefaultNumClasses == 10

\* torch.nn.Linear(in_features, out_features): a new layer, created on the
\* host with freshly initialised weights
Linear(in_features, out_features) ==
    [in_features |-> in_features, out_features |-> out_features,
     device |-> "cpu", data |-> "init"]

\* what torch.hub.load returns for an entrypoint: a pretrained model on the
\* host whose classifier.fc maps the backbone's features to 1000 classes
HubModel(e) ==
    [entry |-> e,
     fc |-> [in_features |-> IF e = "nvidia_efficientnet_b0" THEN 1280 ELSE 1792,
             out_features |-> 1000, device |-> "cpu", data |-> "pretrained"]]

\* net.to(d) moves every tensor of the model
ModelTo(m, d) == [m EXCEPT !.fc.device = d]

NoModel == [entry |-> "none"]
NoFc == [in_features |-> 0, out_features |-> 0, device |-> "cpu", data |-> "none"]

\* model.state_dict().items(): the weight entries in registration order, the
\* backbone's on the device the model resides on, then the classifier's
StateDict(m, dev) ==
    << [name |-> "stem.conv.weight", shape |-> <<32, 3>>, device |-> dev,
        data |-> "pretrained"],
       [name |-> "features.weight", shape |-> <<m.fc.in_features, 32>>,
        device |-> dev, data |-> "pretrained"],
       [name |-> "classifier.fc.weight",
        shape |-> <<m.fc.out_features, m.fc.in_features>>,
        device |-> m.fc.device, data |-> m.fc.data],
       [name |-> "classifier.fc.bias", shape |-> <<m.fc.out_features>>,
        device |-> m.fc.device, data |-> m.fc.data] >>

\* val.cpu(): the tensor on the host (a copy when it was elsewhere)
Cpu(t) == [t EXCEPT !.device = "cpu"]

\* t.numpy(): the plain array of a host tensor
Numpy(t) == [kind |-> "ndarray", shape |-> t.shape, data |-> t.data]

\* [val.cpu().numpy() for _, val in model.state_dict().items()]
ModelParams(m, dev) ==
    LET sd == StateDict(m, dev)
    IN  [i \in 1..Len(sd) |-> Numpy(Cpu(sd[i]))]

ClassesArgs == {None} \cup { Some(c) : c \in 0..MaxClasses }
NumClassesArgs == (0..MaxClasses) \cup {DefaultNumClasses}

(* ------------------------------- state -------------------------------- *)
VARIABLES
    pc,          \* position of the call in progress
    fn,          \* the function the caller invoked: "none", "train", "test", ...
    netDevice,   \* where the model's tensors reside
    netMode,     \* net.training: "train" or "eval"
    \* frame of train
    trainloader, valloader, epochs, device,
    epoch,       \* passes of range(epochs) started
    tpos,        \* batches of the current pass fetched
    grads,       \* the batches whose gradients are accumulated in the .grad fields
    lossOf,      \* the batches the current loss value was computed from
    ops,         \* the optimizer-related calls made for the current batch
    optSteps,    \* optimizer.step() calls of this call of train
    evalNo,      \* 0: no evaluation yet, 1: test(net, trainloader), 2: test(net, valloader)
    train_loss, train_acc, val_loss, val_acc,
    evals,       \* the evaluations train has completed, in order
    \* frame of test
    testloader, steps, tdevice,
    it,          \* batches the enumerate iterator has produced
    batch_idx, correct, loss, accuracy,
    seen,        \* the batches processed: <<size, hits, loss>> records
    \* the model adapter and the parameter extractor
    efficientnet,  \* the model the caller holds: its classifier head
    entrypoint, classes,       \* arguments of load_efficientnet
    num_classes, num_features, \* argument and local of replace_classifying_layer
    oldFc,       \* classifier.fc as it was when the replacement started
    replaced,    \* replacements made by the call in progress
    lastParams,  \* the latest get_model_params: the state_dict it read, its
                 \* result, and whether the call before it read the same state_dict
    ret          \* the value returned to the caller

netVars   == <<netDevice, netMode>>
trainVars == <<trainloader, valloader, epochs, device, epoch, tpos, grads, lossOf, ops,
               optSteps, evalNo, train_loss, train_acc, val_loss, val_acc, evals>>
testVars  == <<testloader, steps, tdevice, it, batch_idx, correct, loss,
               accuracy, seen>>
adapterVars == <<efficientnet, entrypoint, classes, num_classes, num_features,
                 oldFc, replaced, lastParams>>
vars == <<pc, fn, netVars, trainVars, testVars, adapterVars, ret>>

TrainFrameInit ==
    /\ epoch = 0 /\ tpos = 0 /\ grads = {} /\ lossOf = {} /\ ops = <<>>
    /\ optSteps = 0
    /\ evalNo = 0 /\ train_loss = 0 /\ train_acc = NoAccuracy
    /\ val_loss = 0 /\ val_acc = NoAccuracy /\ evals = <<>>

TestFrameInit ==
    /\ it = 0 /\ batch_idx = -1 /\ correct = 0 /\ loss = 0
    /\ accuracy = NoAccuracy /\ seen = <<>>

LoopInit ==
    /\ pc = "idle" /\ fn = "none"
    /\ netMode = "train"
    /\ trainloader = NoLoader /\ valloader = NoLoader /\ epochs = 0
    /\ device = "cpu"
    /\ TrainFrameInit
    /\ testloader = NoLoader /\ steps = None /\ tdevice = "cpu"
    /\ TestFrameInit
    /\ ret = NoRet

AdapterLocalsInit ==
    /\ entrypoint = "" /\ classes = None /\ num_classes = 0 /\ num_features = 0
    /\ oldFc = NoFc /\ replaced = 0 /\ lastParams = NoRet

\* A session of train and test calls on a model resident on the host.
Init ==
    /\ LoopInit /\ AdapterLocalsInit
    /\ netDevice = "cpu"
    /\ efficientnet = NoModel

\* A session of model-adapter and parameter-extractor calls: no model is
\* loaded yet, or the caller holds a loaded model, on the host or left on the
\* accelerator (where a train or test call that raised leaves it).
InitAdapter ==
    /\ LoopInit /\ AdapterLocalsInit
    /\ \/ efficientnet = NoModel /\ netDevice = "cpu"
       \/ \E e \in KnownEntrypoints, d \in Devices :
             /\ efficientnet = ModelTo(HubModel(e), d)
             /\ netDevice = d

(* Entering a frame: the locals of a new call. *)
EnterTrain(tl, vl, e, d) ==
    /\ trainloader' = tl /\ valloader' = vl /\ epochs' = e /\ device' = d
    /\ epoch' = 0 /\ tpos' = 0 /\ grads' = {} /\ lossOf' = {} /\ ops' = <<>>
    /\ optSteps' = 0
    /\ evalNo' = 0 /\ train_loss' = 0 /\ train_acc' = NoAccuracy
    /\ val_loss' = 0 /\ val_acc' = NoAccuracy /\ evals' = <<>>

EnterTest(l, s, d) ==
    /\ testloader' = l /\ steps' = s /\ tdevice' = d
    /\ it' = 0 /\ batch_idx' = -1 /\ correct' = 0 /\ loss' = 0
    /\ accuracy' = NoAccuracy /\ seen' = <<>>

ClearTest == EnterTest(NoLoader, None, "cpu")
ClearTrain == EnterTrain(NoLoader, NoLoader, 0, "cpu")
ClearAdapter ==
    /\ entrypoint' = "" /\ classes' = None /\ num_classes' = 0
    /\ num_features' = 0 /\ oldFc' = NoFc /\ replaced' = 0

(* ------------------------------ caller -------------------------------- *)
\* The caller has taken the result, or caught the exception, of the call
\* that ended: the frames of that call are gone, the model is as it was left.
CallEnded ==
    /\ pc \in {"returned", "raised"}
    /\ ClearTrain /\ ClearTest /\ ClearAdapter
    /\ pc' = "idle" /\ fn' = "none" /\ ret' = NoRet
    /\ UNCHANGED <<netVars, efficientnet, lastParams>>

(* ------------------------------- test --------------------------------- *)
\* test(net, testloader, steps, device) called by the user
TestCall ==
    /\ pc = "idle"
    /\ UNCHANGED adapterVars
    /\ \E l \in Loaders("testloader"), s \in StepsArgs, d \in Devices :
          EnterTest(l, s, d)
    /\ UNCHANGED trainVars
    /\ pc' = "test_to" /\ fn' = "test" /\ ret' = NoRet
    /\ UNCHANGED netVars

\* net.to(device)
TestToDevice ==
    /\ pc = "test_to"
    /\ UNCHANGED adapterVars
    /\ netDevice' = tdevice
    /\ pc' = "test_init"
    /\ UNCHANGED <<fn, netMode, trainVars, testVars, ret>>

\* criterion = ...; correct, loss = 0, 0.0; net.eval()
TestInit ==
    /\ pc = "test_init"
    /\ UNCHANGED adapterVars
    /\ correct' = 0 /\ loss' = 0
    /\ netMode' = "eval"
    /\ pc' = "test_loop"
    /\ UNCHANGED <<fn, netDevice, trainVars, testloader, steps, tdevice, it,
                   batch_idx, accuracy, seen, ret>>

\* mutant: "loss =" in place of "loss +="
AddLoss_Last(acc, l) == l

\* loss += criterion(outputs, labels).item()
AddLoss(acc, l) == acc + l

\* correct += (predicted == labels).sum().item()
AddCorrect(acc, hits) == acc + hits

\* mutant: the bound counts batches, the loop stops after steps of them
BreakNow_Exclusive(s, idx) == s # None /\ idx + 1 = s[1]

\* if steps is not None and batch_idx == steps: break
BreakNow(s, idx) == s # None /\ idx = s[1]

\* one iteration of the for loop: the next batch is fetched and evaluated
TestBatch ==
    /\ pc = "test_loop"
    /\ UNCHANGED adapterVars
    /\ it < Len(testloader.batches)
    /\ LET size == testloader.batches[it + 1] IN
       \E hits \in 0..size, l \in LossValues :
          /\ it' = it + 1
          /\ batch_idx' = it
          /\ loss' = AddLoss(loss, l)
          /\ correct' = AddCorrect(correct, hits)
          /\ seen' = Append(seen, [size |-> size, hits |-> hits, loss |-> l])
          /\ pc' = IF BreakNow(steps, it) THEN "test_acc" ELSE "test_loop"
    /\ UNCHANGED <<fn, netVars, trainVars, testloader, steps, tdevice,
                   accuracy, ret>>

\* the loader is exhausted: the for loop ends
TestLoopEnd ==
    /\ pc = "test_loop"
    /\ UNCHANGED adapterVars
    /\ it = Len(testloader.batches)
    /\ pc' = "test_acc"
    /\ UNCHANGED <<fn, netVars, trainVars, testVars, ret>>

\* mutant: correct / len(testloader), the number of batches
Accuracy_PerBatch(c, l) == [num |-> c, den |-> Len(l.batches)]

\* accuracy = correct / len(testloader.dataset), as the fraction num/den
Accuracy(c, l) == [num |-> c, den |-> l.dataset]

TestAccuracy ==
    /\ pc = "test_acc"
    /\ UNCHANGED adapterVars
    /\ testloader.dataset # 0
    /\ accuracy' = Accuracy(correct, testloader)
    /\ pc' = "test_restore"
    /\ UNCHANGED <<fn, netVars, trainVars, testloader, steps, tdevice, it,
                   batch_idx, correct, loss, seen, ret>>

\* the division raises ZeroDivisionError on an empty dataset
TestZeroDivision ==
    /\ pc = "test_acc"
    /\ UNCHANGED adapterVars
    /\ testloader.dataset = 0
    /\ pc' = "raised"
    /\ UNCHANGED <<fn, netVars, trainVars, testVars, ret>>

\* mutant: test does not move the model back
TestHostDevice_Stay(d) == d

\* net.to("cpu") at the end of test
TestHostDevice(d) == "cpu"

TestRestore ==
    /\ pc = "test_restore"
    /\ UNCHANGED adapterVars
    /\ netDevice' = TestHostDevice(netDevice)
    /\ pc' = "test_ret"
    /\ UNCHANGED <<fn, netMode, trainVars, testVars, ret>>

\* return loss, accuracy  (to the user)
TestReturn ==
    /\ pc = "test_ret" /\ fn = "test"
    /\ UNCHANGED adapterVars
    /\ ret' = [kind |-> "pair", loss |-> loss, accuracy |-> accuracy]
    /\ pc' = "returned"
    /\ UNCHANGED <<fn, netVars, trainVars, testVars>>

(* ------------------------------- train -------------------------------- *)
\* train(net, trainloader, valloader, epochs, device) called by the user
TrainCall ==
    /\ pc = "idle"
    /\ UNCHANGED adapterVars
    /\ \E tl \in Loaders("trainloader"), vl \in Loaders("valloader"),
          e \in 0..MaxEpochs, d \in Devices :
          EnterTrain(tl, vl, e, d)
    /\ UNCHANGED testVars
    /\ pc' = "train_to" /\ fn' = "train" /\ ret' = NoRet
    /\ UNCHANGED netVars

\* net.to(device)
TrainToDevice ==
    /\ pc = "train_to"
    /\ UNCHANGED adapterVars
    /\ netDevice' = device
    /\ pc' = "train_init"
    /\ UNCHANGED <<fn, netMode, trainVars, testVars, ret>>

\* criterion = ...; optimizer = SGD(...); net.train()
TrainInit ==
    /\ pc = "train_init"
    /\ UNCHANGED adapterVars
    /\ netMode' = "train"
    /\ pc' = "train_epoch"
    /\ UNCHANGED <<fn, netDevice, trainVars, testVars, ret>>

\* for _ in range(epochs): the next pass starts, or the loop ends
TrainEpoch ==
    /\ pc = "train_epoch"
    /\ UNCHANGED adapterVars
    /\ IF epoch < epochs
         THEN /\ epoch' = epoch + 1 /\ tpos' = 0 /\ pc' = "train_fetch"
         ELSE /\ pc' = "train_restore" /\ UNCHANGED <<epoch, tpos>>
    /\ UNCHANGED <<fn, netVars, trainloader, valloader, epochs, device, grads,
                   lossOf, ops, optSteps, evalNo, train_loss, train_acc,
                   val_loss, val_acc, evals, testVars, ret>>

\* for batch in trainloader: the next batch is fetched and moved to the
\* device, or the pass ends
TrainFetch ==
    /\ pc = "train_fetch"
    /\ UNCHANGED adapterVars
    /\ IF tpos < Len(trainloader.batches)
         THEN /\ tpos' = tpos + 1 /\ ops' = <<>> /\ pc' = "train_zero"
         ELSE /\ pc' = "train_epoch" /\ UNCHANGED <<tpos, ops>>
    /\ UNCHANGED <<fn, netVars, trainloader, valloader, epochs, device, epoch,
                   grads, lossOf, optSteps, evalNo, train_loss, train_acc,
                   val_loss, val_acc, evals, testVars, ret>>

\* the batch being trained on: <<pass, position in the pass>>
CurBatch == <<epoch, tpos>>

\* mutant: the gradients are not zeroed
ZeroGrad_Keep(g) == g

\* optimizer.zero_grad(): the accumulated gradients are dropped
ZeroGrad(g) == {}

TrainZeroGrad ==
    /\ pc = "train_zero"
    /\ UNCHANGED adapterVars
    /\ grads' = ZeroGrad(grads)
    /\ ops' = Append(ops, "zero_grad")
    /\ pc' = "train_loss"
    /\ UNCHANGED <<fn, netVars, trainloader, valloader, epochs, device, epoch,
                   tpos, lossOf, optSteps, evalNo, train_loss, train_acc,
                   val_loss, val_acc, evals, testVars, ret>>

\* loss = criterion(net(images), labels)
TrainLoss ==
    /\ pc = "train_loss"
    /\ UNCHANGED adapterVars
    /\ lossOf' = {CurBatch}
    /\ ops' = Append(ops, "loss")
    /\ pc' = "train_backward"
    /\ UNCHANGED <<fn, netVars, trainloader, valloader, epochs, device, epoch,
                   tpos, grads, optSteps, evalNo, train_loss, train_acc,
                   val_loss, val_acc, evals, testVars, ret>>

\* loss.backward(): the gradients of the loss are added to the .grad fields
Backward(g, l) == g \cup l

TrainBackward ==
    /\ pc = "train_backward"
    /\ UNCHANGED adapterVars
    /\ grads' = Backward(grads, lossOf)
    /\ ops' = Append(ops, "backward")
    /\ pc' = "train_step"
    /\ UNCHANGED <<fn, netVars, trainloader, valloader, epochs, device, epoch,
                   tpos, lossOf, optSteps, evalNo, train_loss, train_acc,
                   val_loss, val_acc, evals, testVars, ret>>

\* optimizer.step()
TrainStep ==
    /\ pc = "train_step"
    /\ UNCHANGED adapterVars
    /\ optSteps' = optSteps + 1
    /\ ops' = Append(ops, "step")
    /\ pc' = "train_fetch"
    /\ UNCHANGED <<fn, netVars, trainloader, valloader, epochs, device, epoch,
                   tpos, grads, lossOf, evalNo, train_loss, train_acc,
                   val_loss, val_acc, evals, testVars, ret>>

\* mutant: train leaves the relocation to the evaluations
TrainHostDevice_Stay(d) == d

\* net.to("cpu") after the epochs
TrainHostDevice(d) == "cpu"

TrainRestore ==
    /\ pc = "train_restore"
    /\ UNCHANGED adapterVars
    /\ netDevice' = TrainHostDevice(netDevice)
    /\ pc' = "train_eval1"
    /\ UNCHANGED <<fn, netMode, trainVars, testVars, ret>>

\* the defaults of test's parameters steps and device
DefaultSteps == None
DefaultDevice == "cpu"

\* mutant: the first evaluation runs over the validation loader
FirstEvalLoader_Val(tl, vl) == vl

\* the loaders of the two evaluations of train
FirstEvalLoader(tl, vl) == tl
SecondEvalLoader(tl, vl) == vl

\* train_loss, train_acc = test(net, trainloader): the call
TrainEval1 ==
    /\ pc = "train_eval1"
    /\ UNCHANGED adapterVars
    /\ EnterTest(FirstEvalLoader(trainloader, valloader), DefaultSteps, DefaultDevice)
    /\ evalNo' = 1
    /\ pc' = "test_to"
    /\ UNCHANGED <<fn, netVars, trainloader, valloader, epochs, device, epoch,
                   tpos, grads, lossOf, ops, optSteps, train_loss, train_acc,
                   val_loss, val_acc, evals, ret>>

\* val_loss, val_acc = test(net, valloader): the call
TrainEval2 ==
    /\ pc = "train_eval2"
    /\ UNCHANGED adapterVars
    /\ EnterTest(SecondEvalLoader(trainloader, valloader), DefaultSteps, DefaultDevice)
    /\ evalNo' = 2
    /\ pc' = "test_to"
    /\ UNCHANGED <<fn, netVars, trainloader, valloader, epochs, device, epoch,
                   tpos, grads, lossOf, ops, optSteps, train_loss, train_acc,
                   val_loss, val_acc, evals, ret>>

\* return loss, accuracy  (to train, which assigns the pair)
TestReturnToTrain ==
    /\ pc = "test_ret" /\ fn = "train"
    /\ UNCHANGED adapterVars
    /\ evals' = Append(evals, [loader |-> testloader.id, loss |-> loss,
                               accuracy |-> accuracy])
    /\ IF evalNo = 1
         THEN /\ train_loss' = loss /\ train_acc' = accuracy
              /\ pc' = "train_eval2"
              /\ UNCHANGED <<val_loss, val_acc>>
         ELSE /\ val_loss' = loss /\ val_acc' = accuracy
              /\ pc' = "train_results"
              /\ UNCHANGED <<train_loss, train_acc>>
    /\ ClearTest
    /\ UNCHANGED <<fn, netVars, trainloader, valloader, epochs, device, epoch,
                   tpos, grads, lossOf, ops, optSteps, evalNo, ret>>

\* results = {...}; return results
Results(tl, ta, vl, va) ==
    [kind |-> "Results", train_loss |-> tl, train_accuracy |-> ta,
     val_loss |-> vl, val_accuracy |-> va]

TrainReturn ==
    /\ pc = "train_results"
    /\ UNCHANGED adapterVars
    /\ ret' = Results(train_loss, train_acc, val_loss, val_acc)
    /\ pc' = "returned"
    /\ UNCHANGED <<fn, netVars, trainVars, testVars>>

(* ------------------------------ failure ------------------------------- *)
\* the positions whose next statement calls into the tensor library on a
\* batch or relocates the model to the device
FailPcs == {"test_to", "test_loop", "train_to", "train_fetch", "train_zero",
            "train_loss", "train_backward", "train_step"}

\* mutant: the relocation back to the host sits in a finally clause
Raise_Finally ==
    /\ pc \in FailPcs
    /\ pc = "test_loop" => it < Len(testloader.batches)
    /\ pc = "train_fetch" => tpos < Len(trainloader.batches)
    /\ pc' = "raised"
    /\ netDevice' = "cpu"
    /\ UNCHANGED <<fn, netMode, trainVars, testVars, adapterVars, ret>>

\* An external call raises: neither train nor test has a try/except/finally,
\* so the exception unwinds to the caller and nothing else runs.
Raise ==
    /\ pc \in FailPcs
    /\ UNCHANGED adapterVars
    /\ pc = "test_loop" => it < Len(testloader.batches)
    /\ pc = "train_fetch" => tpos < Len(trainloader.batches)
    /\ pc' = "raised"
    /\ UNCHANGED <<fn, netVars, trainVars, testVars, ret>>

Next ==
    \/ TestCall \/ TestToDevice \/ TestInit \/ TestBatch \/ TestLoopEnd
    \/ TestAccuracy \/ TestZeroDivision \/ TestRestore \/ TestReturn
    \/ TrainCall \/ TrainToDevice \/ TrainInit \/ TrainEpoch \/ TrainFetch
    \/ TrainZeroGrad \/ TrainLoss \/ TrainBackward \/ TrainStep
    \/ TrainRestore \/ TrainEval1 \/ TrainEval2 \/ TestReturnToTrain
    \/ TrainReturn \/ Raise \/ CallEnded

Spec == Init /\ [][Next]_vars

(* --------------------------- model adapter ---------------------------- *)
loopVars == <<netMode, trainVars, testVars>>

\* load_efficientnet(entrypoint, classes) called by the user
LoadCall ==
    /\ pc = "idle"
    /\ \E e \in EntrypointArgs, c \in ClassesArgs :
          entrypoint' = e /\ classes' = c
    /\ pc' = "load_hub" /\ fn' = "load_efficientnet"
    /\ UNCHANGED <<netDevice, loopVars, efficientnet, num_classes, num_features,
                   oldFc, replaced, lastParams, ret>>

\* efficientnet = torch.hub.load(..., entrypoint, pretrained=True)
LoadHub ==
    /\ pc = "load_hub"
    /\ entrypoint \in KnownEntrypoints
    /\ efficientnet' = HubModel(entrypoint)
    /\ netDevice' = "cpu"
    /\ pc' = "load_check"
    /\ UNCHANGED <<fn, loopVars, entrypoint, classes, num_classes, num_features,
                   oldFc, replaced, lastParams, ret>>

\* the hub does not know the entrypoint: torch.hub.load raises
LoadHubFails ==
    /\ pc = "load_hub"
    /\ entrypoint \notin KnownEntrypoints
    /\ pc' = "raised"
    /\ UNCHANGED <<fn, netDevice, loopVars, adapterVars, ret>>

\* if classes is not None:
ReplaceWanted(c) == c # None

\* if classes is not None: replace_classifying_layer(efficientnet, classes)
LoadCheck ==
    /\ pc = "load_check"
    /\ IF ReplaceWanted(classes)
         THEN /\ num_classes' = classes[1] /\ pc' = "replace_read"
         ELSE /\ pc' = "load_ret" /\ UNCHANGED num_classes
    /\ UNCHANGED <<fn, netDevice, loopVars, efficientnet, entrypoint, classes,
                   num_features, oldFc, replaced, lastParams, ret>>

\* return efficientnet
LoadReturn ==
    /\ pc = "load_ret"
    /\ ret' = [kind |-> "model", model |-> efficientnet]
    /\ pc' = "returned"
    /\ UNCHANGED <<fn, netDevice, loopVars, adapterVars>>

\* replace_classifying_layer(efficientnet_model, num_classes) called by the
\* user, with num_classes given or left to its default
ReplaceCall ==
    /\ pc = "idle"
    /\ efficientnet # NoModel
    /\ \E c \in NumClassesArgs : num_classes' = c
    /\ pc' = "replace_read" /\ fn' = "replace_classifying_layer"
    /\ UNCHANGED <<netDevice, loopVars, efficientnet, entrypoint, classes,
                   num_features, oldFc, replaced, lastParams, ret>>

\* num_features = efficientnet_model.classifier.fc.in_features
ReplaceRead ==
    /\ pc = "replace_read"
    /\ num_features' = efficientnet.fc.in_features
    /\ oldFc' = efficientnet.fc
    /\ pc' = "replace_assign"
    /\ UNCHANGED <<fn, netDevice, loopVars, efficientnet, entrypoint, classes,
                   num_classes, replaced, lastParams, ret>>

\* mutant: the arguments of Linear swapped
NewClassifier_Swapped(features, cls) == Linear(cls, features)

\* torch.nn.Linear(num_features, num_classes)
NewClassifier(features, cls) == Linear(features, cls)

\* efficientnet_model.classifier.fc = torch.nn.Linear(num_features, num_classes)
ReplaceAssign ==
    /\ pc = "replace_assign"
    /\ efficientnet' = [efficientnet EXCEPT
                           !.fc = NewClassifier(num_features, num_classes)]
    /\ replaced' = replaced + 1
    /\ pc' = IF fn = "load_efficientnet" THEN "load_ret" ELSE "returned"
    /\ UNCHANGED <<fn, netDevice, loopVars, entrypoint, classes, num_classes,
                   num_features, oldFc, lastParams, ret>>

(* ------------------------- parameter extractor ------------------------ *)
\* get_model_params(model) called by the user
GetParamsCall ==
    /\ pc = "idle"
    /\ efficientnet # NoModel
    /\ pc' = "params" /\ fn' = "get_model_params"
    /\ UNCHANGED <<netDevice, loopVars, adapterVars, ret>>

\* mutant: the entries sorted by name
GetModelParams_Sorted(m, dev) ==
    LET p == ModelParams(m, dev) IN <<p[3], p[4], p[2], p[1]>>

\* return [val.cpu().numpy() for _, val in model.state_dict().items()]
GetModelParams(m, dev) == ModelParams(m, dev)

GetParams ==
    /\ pc = "params"
    /\ ret' = [kind |-> "params", params |-> GetModelParams(efficientnet, netDevice)]
    /\ lastParams' = [kind |-> "params",
                      state_dict |-> StateDict(efficientnet, netDevice),
                      params |-> ret'.params,
                      repeat |-> /\ lastParams.kind = "params"
                                 /\ lastParams.state_dict =
                                       StateDict(efficientnet, netDevice)]
    /\ pc' = "returned"
    /\ UNCHANGED <<fn, netDevice, loopVars, efficientnet, entrypoint, classes,
                   num_classes, num_features, oldFc, replaced>>

NextAdapter ==
    \/ LoadCall \/ LoadHub \/ LoadHubFails \/ LoadCheck \/ LoadReturn
    \/ ReplaceCall \/ ReplaceRead \/ ReplaceAssign
    \/ GetParamsCall \/ GetParams \/ CallEnded

SpecAdapter == InitAdapter /\ [][NextAdapter]_vars

(* ======================= properties of the code ======================= *)
TestPcs == {"test_to", "test_init", "test_loop", "test_acc", "test_restore",
            "test_ret"}
\* positions of test after its for loop has ended
AfterLoopPcs == {"test_acc", "test_restore", "test_ret"}
\* positions between net.to(device) and net.to("cpu")
TestBetweenPcs == {"test_init", "test_loop", "test_acc", "test_restore"}
TrainBetweenPcs == {"train_init", "train_epoch", "train_fetch", "train_zero",
                    "train_loss", "train_backward", "train_step",
                    "train_restore"}
\* positions of train after its net.to("cpu")
TrainAfterRestorePcs == {"train_eval1", "train_eval2", "train_results"}

TestFinished == pc \in AfterLoopPcs \/ (pc = "returned" /\ fn = "test")

SumHits(s) == SumSeq([i \in 1..Len(s) |-> s[i].hits])
SumLoss(s) == SumSeq([i \in 1..Len(s) |-> s[i].loss])
SumSize(s) == SumSeq([i \in 1..Len(s) |-> s[i].size])

\* a fraction num/den lies in [0.0, 1.0]
InUnitInterval(a) == a.den > 0 /\ 0 <= a.num /\ a.num <= a.den

(* C1: with steps = k >= 0 the evaluation loop processes exactly k+1 batches *)
(* when the loader yields more than k+1 batches and every batch when it     *)
(* yields at most k+1; with steps = None it processes every batch.  The     *)
(* batches processed are the first ones the loader yields.                  *)
C1_StepsBoundInclusive ==
    TestFinished =>
        LET n == Len(testloader.batches) IN
        /\ Len(seen) <= n
        /\ \A i \in 1..Len(seen) : seen[i].size = testloader.batches[i]
        /\ steps = None => Len(seen) = n
        /\ (steps # None /\ steps[1] >= 0) =>
              IF n > steps[1] + 1 THEN Len(seen) = steps[1] + 1
                                  ELSE Len(seen) = n

\* test(steps=1) over a loader of three batches has returned after two of them
C1_Witness ==
    /\ pc = "returned" /\ fn = "test"
    /\ steps = Some(1) /\ Len(testloader.batches) = 3 /\ Len(seen) = 2

C3_TrainThenTwoEvaluations ==
    fn = "train" =>
        LET n == Len(trainloader.batches) IN
        /\ Len(evals) <= 2
        /\ (Len(evals) >= 1 => evals[1].loader = "trainloader")
        /\ (Len(evals) = 2 => evals[2].loader = "valloader")
        \* an evaluation has started: the epochs and their steps are over
        /\ (evalNo > 0 \/ pc \in TestPcs) =>
              epoch = epochs /\ optSteps = epochs * n
        /\ (pc \in TestPcs /\ evalNo = 1) =>
              evals = <<>> /\ testloader.id = "trainloader"
        /\ (pc \in TestPcs /\ evalNo = 2) =>
              Len(evals) = 1 /\ testloader.id = "valloader"
        /\ (pc # "returned") => ret = NoRet
        /\ (pc = "returned") =>
              /\ Len(evals) = 2
              /\ epoch = epochs /\ optSteps = epochs * n
              /\ ret = Results(evals[1].loss, evals[1].accuracy,
                               evals[2].loss, evals[2].accuracy)

\* train has returned after two epochs of optimizer steps, with metrics that
\* tell the two evaluations apart
C3_Witness ==
    /\ pc = "returned" /\ fn = "train"
    /\ epochs = 2 /\ optSteps >= 2
    /\ ret.train_loss # ret.val_loss
    /\ ret.train_accuracy # ret.val_accuracy

\* train(epochs=0) has returned its Results
C3_WitnessNoEpochs ==
    /\ pc = "returned" /\ fn = "train" /\ epochs = 0
    /\ trainloader.batches # <<>> /\ ret.kind = "Results"

(* C4: when test or train returns, for any device argument, the model is on *)
(* the host.  Inside a call the model is on the target device from the      *)
(* entry relocation to the relocation back, and on the host from the        *)
(* relocation back until the call returns.                                  *)
C4_ModelOnHostAtReturn ==
    /\ (pc = "returned" /\ fn \in {"train", "test"}) => netDevice = "cpu"
    /\ pc \in TestBetweenPcs => netDevice = tdevice
    /\ pc = "test_ret" => netDevice = "cpu"
    /\ pc \in TrainBetweenPcs => netDevice = device
    /\ pc \in TrainAfterRestorePcs => netDevice = "cpu"

\* test(device=cuda) has returned after evaluating a batch
C4_Witness ==
    /\ pc = "returned" /\ fn = "test"
    /\ tdevice = "cuda" /\ Len(seen) > 0 /\ netDevice = "cpu"

(* C7: in train every optimizer step comes after zero_grad, the loss and    *)
(* backward of the same batch, in that order, and applies the gradients of  *)
(* that batch alone; a call that returns has made epochs x (batches of the  *)
(* training loader) optimizer steps.                                        *)
C7_BatchStepOrderAndCount ==
    fn = "train" =>
        LET n == Len(trainloader.batches) IN
        /\ pc = "train_step" =>
              /\ ops = <<"zero_grad", "loss", "backward">>
              /\ grads = {CurBatch} /\ lossOf = {CurBatch}
        /\ (pc = "train_fetch" /\ tpos > 0) =>
              ops = <<"zero_grad", "loss", "backward", "step">>
        /\ pc \in {"train_zero", "train_loss", "train_backward", "train_step"} =>
              optSteps = (epoch - 1) * n + tpos - 1
        /\ pc = "train_fetch" => optSteps = (epoch - 1) * n + tpos
        /\ pc = "returned" => optSteps = epochs * n

\* train has returned after two passes over a loader of two batches
C7_Witness ==
    /\ pc = "returned" /\ fn = "train"
    /\ epochs = 2 /\ Len(trainloader.batches) = 2 /\ optSteps = 4

(* C8: a failure of an external call during train or test aborts the call   *)
(* there: the step that raises changes nothing but the position (no batch   *)
(* is processed, no optimizer step made, no value returned, the model stays *)
(* on the device and in the mode it was in), and after it only the caller   *)
(* runs, which finds the model where the failure left it.                   *)
C8_FailureAbortsCall ==
    /\ [](pc = "raised" => ret = NoRet)
    /\ [][(pc # "raised" /\ pc' = "raised") =>
            /\ netDevice' = netDevice /\ netMode' = netMode
            /\ ret' = NoRet
            /\ seen' = seen /\ correct' = correct /\ loss' = loss
            /\ optSteps' = optSteps /\ evals' = evals]_vars
    /\ [][pc = "raised" =>
            pc' = "idle" /\ ret' = NoRet /\ netDevice' = netDevice]_vars

\* test(device=cuda) raised on its second batch: the model is still on cuda
C8_Witness ==
    /\ pc = "raised" /\ fn = "test"
    /\ tdevice = "cuda" /\ netDevice = "cuda"
    /\ Len(seen) = 1 /\ Len(testloader.batches) > 1

(* C9: test returns accuracy = (correct predictions over the batches it     *)
(* processed) / len(testloader.dataset) and loss = the sum of the losses of *)
(* the batches it processed; the denominator is the dataset size also when  *)
(* steps stops the loop early, so the accuracy is at most (samples in the   *)
(* processed batches) / (dataset size).                                     *)
C9_AccuracyOverDatasetSize ==
    /\ pc \in {"test_restore", "test_ret"} =>
          /\ accuracy = [num |-> SumHits(seen), den |-> testloader.dataset]
          /\ loss = SumLoss(seen)
          /\ accuracy.num <= SumSize(seen)
    /\ (pc = "returned" /\ fn = "test") =>
          /\ ret.accuracy = [num |-> SumHits(seen), den |-> testloader.dataset]
          /\ ret.loss = SumLoss(seen)
          /\ ret.accuracy.num <= SumSize(seen)

\* test(steps=0) has returned: one batch of a larger dataset, all correct
C9_Witness ==
    /\ pc = "returned" /\ fn = "test"
    /\ steps = Some(0) /\ Len(seen) = 1 /\ Len(testloader.batches) > 1
    /\ ret.accuracy.num = SumSize(seen)
    /\ ret.accuracy.den > SumSize(seen)
    /\ ret.loss > 0

(* C10: train moves the model to the host after the last epoch and before   *)
(* the first evaluation, and calls both evaluations with the default device *)
(* (the host) and no steps bound: the model is on the host from then until  *)
(* train returns, and in inference mode from the first evaluation's         *)
(* net.eval(), which precedes its first batch, until train returns.         *)
C10_EvaluationsOnHost ==
    fn = "train" =>
        /\ pc \in TrainBetweenPcs => netDevice = device /\ evalNo = 0
        /\ pc \in TrainAfterRestorePcs \cup TestPcs \cup {"returned"} =>
              netDevice = "cpu"
        /\ pc \in TestPcs => steps = None /\ tdevice = "cpu"
        /\ (pc \in TestPcs \ {"test_to", "test_init"} \/ evalNo = 2
              \/ pc \in {"train_eval2", "train_results", "returned"}) =>
              netMode = "eval"
        /\ pc = "train_eval1" => epoch = epochs /\ evalNo = 0

\* train(device=cuda) is evaluating the second batch of its first evaluation
C10_Witness ==
    /\ fn = "train" /\ device = "cuda" /\ epochs > 0
    /\ pc = "test_loop" /\ evalNo = 1 /\ it = 1
    /\ Len(testloader.batches) > 1

(* C5: after replace_classifying_layer the classifier's fc has the          *)
(* requested number of outputs and the inputs of the layer it replaced;     *)
(* load_efficientnet replaces the layer exactly when classes is not None    *)
(* and otherwise returns the hub's model as loaded.                         *)
C5_ClassifierReplaced ==
    /\ (replaced > 0 /\ pc \in {"load_ret", "returned"}) =>
          /\ efficientnet.fc.out_features = num_classes
          /\ efficientnet.fc.in_features = oldFc.in_features
    /\ (pc = "returned" /\ fn = "load_efficientnet") =>
          /\ ret.kind = "model" /\ ret.model = efficientnet
          /\ IF classes = None
               THEN replaced = 0 /\ ret.model = HubModel(entrypoint)
               ELSE /\ replaced = 1
                    /\ ret.model.fc.out_features = classes[1]
                    /\ ret.model.fc.in_features =
                          HubModel(entrypoint).fc.in_features

\* load_efficientnet(b4, classes=2) has returned a model with a 1792 -> 2 head
C5_Witness ==
    /\ pc = "returned" /\ fn = "load_efficientnet"
    /\ entrypoint = "nvidia_efficientnet_b4" /\ classes = Some(2)
    /\ ret.model.fc.in_features = 1792 /\ ret.model.fc.out_features = 2

(* C6: get_model_params changes nothing of the model and returns one array  *)
(* per entry of the model's state_dict, in the state_dict's order; a call   *)
(* on a model whose state_dict is as the previous call read it returns what *)
(* that call returned.                                                      *)
C6_ParamsReadOnlyAndOrdered ==
    /\ []((pc = "returned" /\ fn = "get_model_params") =>
            LET sd == StateDict(efficientnet, netDevice) IN
            /\ ret.kind = "params"
            /\ Len(ret.params) = Len(sd)
            /\ \A i \in 1..Len(sd) :
                  ret.params[i] = [kind |-> "ndarray", shape |-> sd[i].shape,
                                   data |-> sd[i].data])
    /\ [][pc = "params" =>
            /\ efficientnet' = efficientnet
            /\ netDevice' = netDevice /\ netMode' = netMode]_vars
    /\ [][(/\ pc = "params"
           /\ lastParams.kind = "params"
           /\ lastParams.state_dict = StateDict(efficientnet, netDevice)) =>
            ret'.params = lastParams.params]_vars

\* a second get_model_params on the same model, on cuda with a replaced head
C6_Witness ==
    /\ pc = "returned" /\ fn = "get_model_params"
    /\ lastParams.kind = "params" /\ lastParams.repeat
    /\ netDevice = "cuda" /\ efficientnet.fc.device = "cpu"

====
